---- MODULE Spec2Model ----
(***************************************************************************)
(* Model of the compile-time FSM framework (FSM.hpp) and of the example    *)
(* machine built on it (example/basic_fsm.hpp and its main loop).          *)
(*                                                                         *)
(* A program is assembled by macro invocations (NEW_STATE, NEW_EVENT,      *)
(* NEW_CRITICAL_EVENT, NEW_TRANSITION, NEW_GENERIC_TRANSITION), or by      *)
(* including basic_fsm.hpp as a whole.  It then constructs an FSM and      *)
(* dispatches events.  A program the compiler rejects (a redefined         *)
(* specialization, a use of an incomplete FSM_State_Name) ends in phase    *)
(* "ill_formed": nothing of it ever runs.                                  *)
(***************************************************************************)
EXTENDS Integers, Sequences, FiniteSets, TLC

VARIABLES
    phase,      \* "setup" | "run" | "ill_formed"
    example,    \* TRUE iff the program is basic_fsm.hpp with its main loop
    states,     \* the types derived from FSM_State
    events,     \* the types derived from FSM_Event
    criticals,  \* the types derived from FSM_CriticalEvent
    names,      \* the specializations of FSM_State_Name: type -> name
    exact,      \* explicit specializations of FSM_Transition: <<state, event, next>>
    generic,    \* partial specializations of FSM_Transition: <<event, next>>
    initial,    \* the template argument of the FSM the program constructs
    cur,        \* the state held by the caller's FSM value
    recv,       \* the state of the object the last dispatch was called on
    op,         \* the last operation: "none" | "construct" | "dispatch" |
                \* "invalid" | "tick"
    out,        \* what the last operation wrote or invoked, in order
    hist,       \* the dispatch calls since construction: <<state, event>>
    log,        \* what the constructor and then each dispatch call wrote or
                \* invoked: log[1] the constructor's, log[i + 1] that of hist[i]
    input       \* main's inputEvent: << >> before the first read, then <<n>>

vars == <<phase, example, states, events, criticals, names, exact, generic,
          initial, cur, recv, op, out, hist, log, input>>

---------------------------------------------------------------------------
\* Bounds of the model
MaxRules == 3
MaxHist == 4

NoState == "none"

---------------------------------------------------------------------------
\* The vocabulary of basic_fsm.hpp, in declaration order.
StateArgs == <<"init", "idle", "tx", "rx", "error">>
EventArgs == <<"ready", "startTx", "startRx", "done">>
CriticalArgs == <<"error", "reset">>

\* The vocabulary of a hand-written program, declared in this order: two
\* states, one ordinary and one critical event.
UserStateArgs == <<"init", "idle">>
UserEventArgs == <<"ready">>
UserCriticalArgs == <<"reset">>

\* The token pasting of the declaration macros.
StateType(a) == "s_" \o a
EventType(a) == "e_" \o a
CriticalType(a) == "ce_" \o a

Range(f) == {f[i] : i \in DOMAIN f}

BasicStates == {StateType(a) : a \in Range(StateArgs)}
BasicEvents == {EventType(a) : a \in Range(EventArgs)}
BasicCriticals == {CriticalType(a) : a \in Range(CriticalArgs)}

\* NEW_STATE and NEW_EVENT specialize FSM_State_Name; NEW_CRITICAL_EVENT
\* does not.
BasicNames == [t \in BasicStates \cup BasicEvents |-> t]

\* Mutant: rx is left for init instead of idle when the transfer is done.
BasicExact_rx_done_init ==
    { <<"s_init", "e_ready", "s_idle">>,
      <<"s_idle", "e_startTx", "s_tx">>,
      <<"s_idle", "e_startRx", "s_rx">>,
      <<"s_tx", "e_done", "s_idle">>,
      <<"s_rx", "e_done", "s_init">> }

BasicExact ==
    { <<"s_init", "e_ready", "s_idle">>,
      <<"s_idle", "e_startTx", "s_tx">>,
      <<"s_idle", "e_startRx", "s_rx">>,
      <<"s_tx", "e_done", "s_idle">>,
      <<"s_rx", "e_done", "s_idle">> }

\* Mutant: the targets of the two generic transitions are exchanged.
BasicGeneric_swapped ==
    { <<"ce_error", "s_init">>,
      <<"ce_reset", "s_error">> }

BasicGeneric ==
    { <<"ce_error", "s_error">>,
      <<"ce_reset", "s_init">> }

\* Mutant: the switch counts the events from 1.
InputEvent_one_based(n) ==
    CASE n = 1 -> "e_ready"
      [] n = 2 -> "e_startTx"
      [] n = 3 -> "e_startRx"
      [] n = 4 -> "e_done"
      [] n = 5 -> "ce_error"
      [] n = 6 -> "ce_reset"
      [] OTHER -> "invalid"

\* processInputEvent's switch: the event dispatched for an input number.
InputEvent(n) ==
    CASE n = 0 -> "e_ready"
      [] n = 1 -> "e_startTx"
      [] n = 2 -> "e_startRx"
      [] n = 3 -> "e_done"
      [] n = 4 -> "ce_error"
      [] n = 5 -> "ce_reset"
      [] OTHER -> "invalid"

Inputs == -1 .. 6

---------------------------------------------------------------------------
\* The framework

derived_FSM_CriticalEvent(e) == e \in criticals

HasExact(s, e) == \E r \in exact : r[1] = s /\ r[2] = e
HasGeneric(e) == \E r \in generic : r[1] = e

\* Mutant: only an explicit specialization makes an event handled.
can_handle_event_exact_only(s, e) == HasExact(s, e)

\* FSM_Transition<State, Event> is complete iff an explicit or a partial
\* specialization matches.
can_handle_event(s, e) == HasExact(s, e) \/ HasGeneric(e)

\* Mutant: the partial specialization is selected before the explicit one.
next_state_generic_first(s, e) ==
    IF HasGeneric(e)
    THEN (CHOOSE r \in generic : r[1] = e)[2]
    ELSE (CHOOSE r \in exact : r[1] = s /\ r[2] = e)[3]

\* FSM_Transition<State, Event>::next_state: the explicit specialization is
\* selected before the partial one.
next_state(s, e) ==
    IF HasExact(s, e)
    THEN (CHOOSE r \in exact : r[1] = s /\ r[2] = e)[3]
    ELSE (CHOOSE r \in generic : r[1] = e)[2]

FSM_On_Enter(s) == <<"enter", s>>
FSM_On_Exit(s) == <<"exit", s>>
FSM_On_Tick(s) == <<"tick", s>>

\* Mutant: a constructor that does not run the on-enter action.
FSM_no_enter(s) == << >>

\* FSM<State>::FSM(): the calls made by the constructor.
FSM(s) == << FSM_On_Enter(s) >>

\* FSM_State_Name<T>::name is usable iff the specialization exists.
HasName(t) == t \in DOMAIN names

print_unhandled_event(s, e) == <<"diag", names[e], names[s]>>

\* Mutant: the on-exit action runs for critical events too.
dispatch_always_exit(s, e) ==
    IF ~can_handle_event(s, e)
    THEN IF HasName(e) /\ HasName(s)
         THEN [built |-> TRUE, next |-> s, this |-> s,
               out |-> << print_unhandled_event(s, e) >>]
         ELSE [built |-> FALSE, next |-> s, this |-> s, out |-> << >>]
    ELSE [built |-> TRUE, next |-> next_state(s, e), this |-> s,
          out |-> << FSM_On_Exit(s) >> \o FSM(next_state(s, e))]

\* Mutant: the next state is constructed before the on-exit action runs.
dispatch_enter_first(s, e) ==
    IF ~can_handle_event(s, e)
    THEN IF HasName(e) /\ HasName(s)
         THEN [built |-> TRUE, next |-> s, this |-> s,
               out |-> << print_unhandled_event(s, e) >>]
         ELSE [built |-> FALSE, next |-> s, this |-> s, out |-> << >>]
    ELSE [built |-> TRUE, next |-> next_state(s, e), this |-> s,
          out |-> FSM(next_state(s, e)) \o
                  (IF ~derived_FSM_CriticalEvent(e)
                   THEN << FSM_On_Exit(s) >> ELSE << >>)]

\* Mutant: a resolved dispatch also runs the on-tick action of the new state.
dispatch_with_tick(s, e) ==
    IF ~can_handle_event(s, e)
    THEN IF HasName(e) /\ HasName(s)
         THEN [built |-> TRUE, next |-> s, this |-> s,
               out |-> << print_unhandled_event(s, e) >>]
         ELSE [built |-> FALSE, next |-> s, this |-> s, out |-> << >>]
    ELSE [built |-> TRUE, next |-> next_state(s, e), this |-> s,
          out |-> (IF ~derived_FSM_CriticalEvent(e)
                   THEN << FSM_On_Exit(s) >> ELSE << >>)
                  \o FSM(next_state(s, e))
                  \o << FSM_On_Tick(next_state(s, e)) >>]

\* Mutant: a transition is taken once; a later dispatch of the same event
\* in the same state is reported as unhandled.
dispatch_first_time_only(s, e) ==
    IF ~can_handle_event(s, e) \/ (\E i \in DOMAIN hist : hist[i] = <<s, e>>)
    THEN IF HasName(e) /\ HasName(s)
         THEN [built |-> TRUE, next |-> s, this |-> s,
               out |-> << print_unhandled_event(s, e) >>]
         ELSE [built |-> FALSE, next |-> s, this |-> s, out |-> << >>]
    ELSE [built |-> TRUE, next |-> next_state(s, e), this |-> s,
          out |-> (IF ~derived_FSM_CriticalEvent(e)
                   THEN << FSM_On_Exit(s) >> ELSE << >>)
                  \o FSM(next_state(s, e))]

\* Mutant: a resolved dispatch moves the receiver itself to the next state.
dispatch_in_place(s, e) ==
    IF ~can_handle_event(s, e)
    THEN IF HasName(e) /\ HasName(s)
         THEN [built |-> TRUE, next |-> s, this |-> s,
               out |-> << print_unhandled_event(s, e) >>]
         ELSE [built |-> FALSE, next |-> s, this |-> s, out |-> << >>]
    ELSE [built |-> TRUE, next |-> next_state(s, e),
          this |-> next_state(s, e),
          out |-> (IF ~derived_FSM_CriticalEvent(e)
                   THEN << FSM_On_Exit(s) >> ELSE << >>)
                  \o FSM(next_state(s, e))]

\* Mutant: the on-exit action is skipped when the rule is generic, whatever
\* the kind of the event.
dispatch_exit_by_rule_kind(s, e) ==
    IF ~can_handle_event(s, e)
    THEN IF HasName(e) /\ HasName(s)
         THEN [built |-> TRUE, next |-> s, this |-> s,
               out |-> << print_unhandled_event(s, e) >>]
         ELSE [built |-> FALSE, next |-> s, this |-> s, out |-> << >>]
    ELSE [built |-> TRUE, next |-> next_state(s, e), this |-> s,
          out |-> (IF HasExact(s, e)
                   THEN << FSM_On_Exit(s) >> ELSE << >>)
                  \o FSM(next_state(s, e))]

\* Mutant: an unhandled dispatch returns an FSM that holds no state.
dispatch_unhandled_stateless(s, e) ==
    IF ~can_handle_event(s, e)
    THEN IF HasName(e) /\ HasName(s)
         THEN [built |-> TRUE, next |-> NoState, this |-> s,
               out |-> << print_unhandled_event(s, e) >>]
         ELSE [built |-> FALSE, next |-> s, this |-> s, out |-> << >>]
    ELSE [built |-> TRUE, next |-> next_state(s, e), this |-> s,
          out |-> (IF ~derived_FSM_CriticalEvent(e)
                   THEN << FSM_On_Exit(s) >> ELSE << >>)
                  \o FSM(next_state(s, e))]

\* Mutant: a transition whose target is the current state returns *this and
\* runs no action.
dispatch_self_noop(s, e) ==
    IF ~can_handle_event(s, e)
    THEN IF HasName(e) /\ HasName(s)
         THEN [built |-> TRUE, next |-> s, this |-> s,
               out |-> << print_unhandled_event(s, e) >>]
         ELSE [built |-> FALSE, next |-> s, this |-> s, out |-> << >>]
    ELSE IF next_state(s, e) = s
         THEN [built |-> TRUE, next |-> s, this |-> s, out |-> << >>]
         ELSE [built |-> TRUE, next |-> next_state(s, e), this |-> s,
               out |-> (IF ~derived_FSM_CriticalEvent(e)
                        THEN << FSM_On_Exit(s) >> ELSE << >>)
                       \o FSM(next_state(s, e))]

\* Mutant: the FSM in the next state is returned without running its
\* constructor.
dispatch_no_enter(s, e) ==
    IF ~can_handle_event(s, e)
    THEN IF HasName(e) /\ HasName(s)
         THEN [built |-> TRUE, next |-> s, this |-> s,
               out |-> << print_unhandled_event(s, e) >>]
         ELSE [built |-> FALSE, next |-> s, this |-> s, out |-> << >>]
    ELSE [built |-> TRUE, next |-> next_state(s, e), this |-> s,
          out |-> (IF ~derived_FSM_CriticalEvent(e)
                   THEN << FSM_On_Exit(s) >> ELSE << >>)]

\* FSM<State>::dispatch(Event) called on an FSM in state s.
\*   built: FALSE iff the instantiation does not compile
\*   next : the state of the returned FSM
\*   this : the state of the receiver when the call returns
\*   out  : the hooks invoked and the diagnostics printed, in order
dispatch(s, e) ==
    IF ~can_handle_event(s, e)
    THEN IF HasName(e) /\ HasName(s)
         THEN [built |-> TRUE, next |-> s, this |-> s,
               out |-> << print_unhandled_event(s, e) >>]
         ELSE [built |-> FALSE, next |-> s, this |-> s, out |-> << >>]
    ELSE [built |-> TRUE, next |-> next_state(s, e), this |-> s,
          out |-> (IF ~derived_FSM_CriticalEvent(e)
                   THEN << FSM_On_Exit(s) >> ELSE << >>)
                  \o FSM(next_state(s, e))]

---------------------------------------------------------------------------
\* Setup: the declarations of the translation unit

InSetup == phase = "setup" /\ ~example

NEW_STATE ==
    /\ InSetup
    /\ Cardinality(states) < Len(UserStateArgs)
    /\ LET t == StateType(UserStateArgs[Cardinality(states) + 1]) IN
        /\ states' = states \cup {t}
        /\ names' = [x \in DOMAIN names \cup {t} |->
                        IF x = t THEN t ELSE names[x]]
    /\ UNCHANGED <<phase, example, events, criticals, exact, generic,
                   initial, cur, recv, op, out, hist, log, input>>

NEW_EVENT ==
    /\ InSetup
    /\ Cardinality(events \ criticals) < Len(UserEventArgs)
    /\ LET t == EventType(UserEventArgs[Cardinality(events \ criticals) + 1]) IN
        /\ events' = events \cup {t}
        /\ names' = [x \in DOMAIN names \cup {t} |->
                        IF x = t THEN t ELSE names[x]]
    /\ UNCHANGED <<phase, example, states, criticals, exact, generic,
                   initial, cur, recv, op, out, hist, log, input>>

NEW_CRITICAL_EVENT ==
    /\ InSetup
    /\ Cardinality(criticals) < Len(UserCriticalArgs)
    /\ LET t == CriticalType(UserCriticalArgs[Cardinality(criticals) + 1]) IN
        /\ events' = events \cup {t}
        /\ criticals' = criticals \cup {t}
    /\ UNCHANGED <<phase, example, states, names, exact, generic,
                   initial, cur, recv, op, out, hist, log, input>>

NumRules == Cardinality(exact) + Cardinality(generic)

\* Mutant: a second rule for the same <state, event> replaces the first.
NEW_TRANSITION_overwrite(s, e, t) ==
    /\ InSetup
    /\ NumRules < MaxRules
    /\ exact' = {r \in exact : ~(r[1] = s /\ r[2] = e)} \cup {<<s, e, t>>}
    /\ UNCHANGED <<phase, example, states, events, criticals, names, generic,
                   initial, cur, recv, op, out, hist, log, input>>

\* A second explicit specialization for the same <state, event> is a
\* redefinition: the translation unit does not compile.
NEW_TRANSITION(s, e, t) ==
    /\ InSetup
    /\ NumRules < MaxRules
    /\ IF HasExact(s, e)
       THEN phase' = "ill_formed" /\ UNCHANGED exact
       ELSE exact' = exact \cup {<<s, e, t>>} /\ UNCHANGED phase
    /\ UNCHANGED <<example, states, events, criticals, names, generic,
                   initial, cur, recv, op, out, hist, log, input>>

\* A second partial specialization for the same event is a redefinition.
NEW_GENERIC_TRANSITION(e, t) ==
    /\ InSetup
    /\ NumRules < MaxRules
    /\ IF HasGeneric(e)
       THEN phase' = "ill_formed" /\ UNCHANGED generic
       ELSE generic' = generic \cup {<<e, t>>} /\ UNCHANGED phase
    /\ UNCHANGED <<example, states, events, criticals, names, exact,
                   initial, cur, recv, op, out, hist, log, input>>

\* #include "basic_fsm.hpp": every declaration of the header at once.
IncludeBasicFsm ==
    /\ InSetup
    /\ states = {} /\ events = {} /\ exact = {} /\ generic = {}
    /\ example' = TRUE
    /\ states' = BasicStates
    /\ events' = BasicEvents \cup BasicCriticals
    /\ criticals' = BasicCriticals
    /\ names' = BasicNames
    /\ exact' = BasicExact
    /\ generic' = BasicGeneric
    /\ UNCHANGED <<phase, initial, cur, recv, op, out, hist, log, input>>

---------------------------------------------------------------------------
\* Run

\* FSM<s>{}: main of the example constructs FSM<s_init>.
Construct(s) ==
    /\ phase = "setup"
    /\ s \in states
    /\ example => s = "s_init"
    /\ phase' = "run"
    /\ initial' = s
    /\ cur' = s
    /\ recv' = NoState
    /\ op' = "construct"
    /\ out' = FSM(s)
    /\ log' = << FSM(s) >>
    /\ UNCHANGED <<example, states, events, criticals, names, exact,
                   generic, hist, input>>

\* fsm = fsm.dispatch(e) in a hand-written program.
Dispatch(e) ==
    /\ phase = "run"
    /\ ~example
    /\ e \in events
    /\ Len(hist) < MaxHist
    /\ LET r == dispatch(cur, e) IN
        /\ phase' = IF r.built THEN "run" ELSE "ill_formed"
        /\ cur' = r.next
        /\ recv' = r.this
        /\ op' = "dispatch"
        /\ out' = r.out
        /\ log' = Append(log, r.out)
    /\ hist' = Append(hist, <<cur, e>>)
    /\ UNCHANGED <<example, states, events, criticals, names, exact, generic,
                   initial, input>>

\* One iteration of the example's main loop:
\* fsm = processInputEvent(fsm, inputEvent).
MainLoop(n) ==
    /\ phase = "run"
    /\ example
    /\ input' = <<n>>
    /\ IF InputEvent(n) = "invalid"
       THEN /\ op' = "invalid"
            /\ out' = << <<"invalid">> >>
            /\ UNCHANGED <<phase, cur, recv, hist, log>>
       ELSE LET r == dispatch(cur, InputEvent(n)) IN
            /\ Len(hist) < MaxHist
            /\ phase' = IF r.built THEN "run" ELSE "ill_formed"
            /\ cur' = r.next
            /\ recv' = r.this
            /\ op' = "dispatch"
            /\ out' = r.out
            /\ log' = Append(log, r.out)
            /\ hist' = Append(hist, <<cur, InputEvent(n)>>)
    /\ UNCHANGED <<example, states, events, criticals, names, exact, generic,
                   initial>>

\* The hosting application runs the on-tick action of the current state;
\* the example's main never does.
Tick ==
    /\ phase = "run"
    /\ ~example
    /\ op' = "tick"
    /\ out' = << FSM_On_Tick(cur) >>
    /\ UNCHANGED <<phase, example, states, events, criticals, names, exact,
                   generic, initial, cur, recv, hist, log, input>>

---------------------------------------------------------------------------
Init ==
    /\ phase = "setup"
    /\ example = FALSE
    /\ states = {}
    /\ events = {}
    /\ criticals = {}
    /\ names = << >>
    /\ exact = {}
    /\ generic = {}
    /\ initial = NoState
    /\ cur = NoState
    /\ recv = NoState
    /\ op = "none"
    /\ out = << >>
    /\ hist = << >>
    /\ log = << >>
    /\ input = << >>

Next ==
    \/ NEW_STATE
    \/ NEW_EVENT
    \/ NEW_CRITICAL_EVENT
    \/ \E s \in states, e \in events, t \in states : NEW_TRANSITION(s, e, t)
    \/ \E e \in events, t \in states : NEW_GENERIC_TRANSITION(e, t)
    \/ IncludeBasicFsm
    \/ \E s \in states : Construct(s)
    \/ \E e \in events : Dispatch(e)
    \/ \E n \in Inputs : MainLoop(n)
    \/ Tick

Spec == Init /\ [][Next]_vars

---------------------------------------------------------------------------
\* Vocabulary of the properties

\* The last dispatch call: the state it was called in and the event.
Dispatched == op = "dispatch"
LastState == hist[Len(hist)][1]
LastEvent == hist[Len(hist)][2]
HistEvents == [i \in 1 .. Len(hist) |-> hist[i][2]]

\* The registered rules, read off the tables.
ExactRule(s, e, t) == <<s, e, t>> \in exact
WildcardRule(e, t) == <<e, t>> \in generic
NoExactRule(s, e) == \A t \in states : ~ExactRule(s, e, t)
NoWildcardRule(e) == \A t \in states : ~WildcardRule(e, t)
Ordinary(e) == e \in events \ criticals
Critical(e) == e \in criticals

Kinds == {out[i][1] : i \in DOMAIN out}
Enter(s) == <<"enter", s>>
Exit(s) == <<"exit", s>>

---------------------------------------------------------------------------
\* C1: a dispatch of an ordinary event E in a state S that has an exact rule
\* S --E--> T returns an FSM in state T and invokes exactly exit(S) and then
\* enter(T): no other hook, no diagnostic.
C1_ExactRuleFollowed ==
    (Dispatched /\ Ordinary(LastEvent)) =>
        \A t \in states :
            ExactRule(LastState, LastEvent, t) =>
                /\ phase = "run"
                /\ cur = t
                /\ out = << Exit(LastState), Enter(t) >>

C1_Witness ==
    /\ Dispatched
    /\ Ordinary(LastEvent)
    /\ \E t \in states : ExactRule(LastState, LastEvent, t) /\ t # LastState
    /\ Len(out) = 2

\* C2: a dispatch of an event that no exact and no wildcard rule matches in
\* the current state returns an FSM in the same state, invokes no hook, and
\* emits exactly one diagnostic that holds the event's and the state's name.
C2_UnhandledReported ==
    (Dispatched /\ NoExactRule(LastState, LastEvent)
                /\ NoWildcardRule(LastEvent)) =>
        /\ phase = "run"
        /\ cur = LastState
        /\ Len(out) = 1
        /\ out[1][1] = "diag"
        /\ LastEvent \in DOMAIN names /\ out[1][2] = names[LastEvent]
        /\ LastState \in DOMAIN names /\ out[1][3] = names[LastState]

\* C3: a dispatch of a critical event that resolves to a transition S -> T
\* invokes enter(T) and never exit(S), also in a state S that an ordinary
\* event leaves with exit(S).
C3_CriticalSkipsExit ==
    (Dispatched /\ Critical(LastEvent)
                /\ ~(NoExactRule(LastState, LastEvent)
                     /\ NoWildcardRule(LastEvent))) =>
        /\ phase = "run"
        /\ out = << Enter(cur) >>
        /\ "exit" \notin Kinds

C3_Witness ==
    /\ Dispatched
    /\ Critical(LastEvent)
    /\ \E e \in events, t \in states :
            Ordinary(e) /\ ExactRule(LastState, e, t)
    /\ out = << Enter(cur) >>
    /\ cur # LastState

\* C4: a dispatch of an event E that has a wildcard rule E -> T, in a state S
\* that has no exact rule for E, returns an FSM in state T, with exit(S) then
\* enter(T) when E is ordinary and enter(T) alone when E is critical.
C4_WildcardFollowed ==
    Dispatched =>
        \A t \in states :
            (WildcardRule(LastEvent, t) /\ NoExactRule(LastState, LastEvent)) =>
                /\ phase = "run"
                /\ cur = t
                /\ Ordinary(LastEvent) => out = << Exit(LastState), Enter(t) >>
                /\ Critical(LastEvent) => out = << Enter(t) >>

\* Both kinds of event have been dispatched through a wildcard rule.
C4_Witness ==
    /\ Dispatched
    /\ Len(hist) >= 2
    /\ \A i \in {Len(hist) - 1, Len(hist)} :
            /\ NoExactRule(hist[i][1], hist[i][2])
            /\ ~NoWildcardRule(hist[i][2])
    /\ Ordinary(hist[Len(hist) - 1][2])
    /\ Critical(LastEvent)
    /\ cur # LastState

\* C5: with an exact rule (S, E) -> T1 and a wildcard rule E -> T2, T1 # T2,
\* a dispatch of E in S returns T1 and not T2, and a dispatch of E in any
\* other state without an exact rule for E returns T2.
C5_ExactBeforeWildcard ==
    Dispatched =>
        \A s \in states, t1 \in states, t2 \in states :
            (ExactRule(s, LastEvent, t1) /\ WildcardRule(LastEvent, t2)
                /\ t1 # t2) =>
                /\ LastState = s => (cur = t1 /\ cur # t2)
                /\ (LastState # s /\ NoExactRule(LastState, LastEvent)) =>
                        cur = t2

\* The same event was dispatched in S, following the exact rule, and then in
\* another state, following the wildcard rule.
C5_Witness ==
    /\ Dispatched
    /\ Len(hist) >= 2
    /\ LET p == hist[Len(hist) - 1] IN
        /\ p[2] = LastEvent
        /\ p[1] # LastState
        /\ \E t1 \in states, t2 \in states :
            /\ t1 # t2
            /\ ExactRule(p[1], LastEvent, t1)
            /\ WildcardRule(LastEvent, t2)
            /\ LastState = t1
            /\ NoExactRule(LastState, LastEvent)
            /\ cur = t2

\* C6: constructing an FSM in an initial state S invokes enter(S) once and
\* nothing else (no exit, no tick, no diagnostic), and the FSM is in S.
C6_ConstructEnters ==
    op = "construct" =>
        /\ phase = "run"
        /\ cur = initial
        /\ initial \in states
        /\ out = << Enter(initial) >>

C6_Witness ==
    /\ op = "construct"
    /\ ~example
    /\ out = << Enter(cur) >>

\* C7: the reference scenario of the example machine.  From init: ready
\* leads to idle with exit(init) then enter(idle); startTx leads to tx;
\* the critical reset leads to init with enter(init) and without exit(tx);
\* done in init leaves init, emits one diagnostic and invokes no hook.
C7_ReferenceScenario ==
    (example /\ Dispatched /\ initial = "s_init") =>
        /\ HistEvents = << "e_ready" >> =>
                /\ cur = "s_idle"
                /\ out = << Exit("s_init"), Enter("s_idle") >>
        /\ HistEvents = << "e_ready", "e_startTx" >> =>
                cur = "s_tx"
        /\ HistEvents = << "e_ready", "e_startTx", "ce_reset" >> =>
                /\ cur = "s_init"
                /\ Exit("s_tx") \notin {out[i] : i \in DOMAIN out}
                /\ Enter("s_init") \in {out[i] : i \in DOMAIN out}
        /\ HistEvents = << "e_ready", "e_startTx", "ce_reset", "e_done" >> =>
                /\ phase = "run"
                /\ cur = "s_init"
                /\ Kinds = {"diag"}
                /\ Len(out) = 1

C7_Witness ==
    /\ example
    /\ Dispatched
    /\ phase = "run"
    /\ HistEvents = << "e_ready", "e_startTx", "ce_reset", "e_done" >>
    /\ cur = "s_init"

\* C8: every registered state and every registered event, ordinary or
\* critical, has a diagnostic name, so that the unhandled-event diagnostic
\* can be emitted for any pair without a rule.
C8_EveryTypeNamed ==
    \A t \in states \cup events : t \in DOMAIN names

\* C9: in the example machine ce_error leads to error and ce_reset to init
\* from each of the five states, and neither is reported as unhandled.
C9_CriticalFromAnywhere ==
    (example /\ Dispatched) =>
        /\ LastEvent = "ce_error" =>
                (phase = "run" /\ cur = "s_error" /\ "diag" \notin Kinds)
        /\ LastEvent = "ce_reset" =>
                (phase = "run" /\ cur = "s_init" /\ "diag" \notin Kinds)

\* Both events were dispatched in the state they lead to and in the other's.
C9_Witness ==
    /\ example
    /\ Dispatched
    /\ phase = "run"
    /\ hist = << <<"s_init", "ce_reset">>, <<"s_init", "ce_error">>,
                 <<"s_error", "ce_error">>, <<"s_error", "ce_reset">> >>
    /\ cur = "s_init"

\* C10: in the example machine the state changes only along the documented
\* diagram; any other of the 5 x 6 (state, event) pairs leaves the state
\* unchanged and is reported as unhandled.
Diagram ==
    { <<"s_init", "e_ready", "s_idle">>,
      <<"s_idle", "e_startTx", "s_tx">>,
      <<"s_idle", "e_startRx", "s_rx">>,
      <<"s_tx", "e_done", "s_idle">>,
      <<"s_rx", "e_done", "s_idle">> }
    \cup {<<s, "ce_error", "s_error">> : s \in BasicStates}
    \cup {<<s, "ce_reset", "s_init">> : s \in BasicStates}

C10_OnlyDiagramEdges ==
    (example /\ Dispatched) =>
        /\ LastState \in BasicStates
        /\ LastEvent \in BasicEvents \cup BasicCriticals
        /\ phase = "run"
        /\ \/ <<LastState, LastEvent, cur>> \in Diagram
           \/ /\ \A t \in BasicStates : <<LastState, LastEvent, t>> \notin Diagram
              /\ cur = LastState
              /\ out = << <<"diag", LastEvent, LastState>> >>

\* An ordinary event was dispatched in error and reported; before it, the
\* machine had moved along an edge of the diagram.
C10_Witness ==
    /\ example
    /\ Dispatched
    /\ phase = "run"
    /\ Len(hist) >= 2
    /\ LastState = "s_error"
    /\ Ordinary(LastEvent)
    /\ cur = "s_error"
    /\ Kinds = {"diag"}
    /\ hist[1] = <<"s_init", "e_ready">>

\* C11: neither the construction of an FSM nor any dispatch, handled or not,
\* ordinary or critical, invokes a tick hook: over the constructor and every
\* dispatch call so far the engine has invoked none.
C11_EngineNeverTicks ==
    /\ op \in {"construct", "dispatch"} => "tick" \notin Kinds
    /\ \A i \in DOMAIN log : \A j \in DOMAIN log[i] : log[i][j][1] # "tick"

\* A handled ordinary, a handled critical and an unhandled dispatch have run.
C11_Witness ==
    /\ Dispatched
    /\ phase = "run"
    /\ \E i \in DOMAIN log : Len(log[i]) = 2
    /\ \E i \in DOMAIN hist : Critical(hist[i][2]) /\ Len(log[i + 1]) = 1
    /\ Kinds = {"diag"}

\* The state of the FSM returned by the i-th dispatch call.
After(i) == IF i < Len(hist) THEN hist[i + 1][1] ELSE cur
NoRule(s, e) == NoExactRule(s, e) /\ NoWildcardRule(e)

\* C12: an event without a rule in the current state, dispatched any number
\* of times in a row, never changes the state and never invokes an enter or
\* exit hook; each of the calls emits one diagnostic and nothing else.
C12_RepeatedUnhandled ==
    \A i \in DOMAIN hist : \A j \in i .. Len(hist) :
        (/\ NoRule(hist[i][1], hist[i][2])
         /\ \A k \in i .. j : hist[k] = hist[i]) =>
            /\ After(j) = hist[i][1]
            /\ \A k \in i .. j :
                    /\ Len(log[k + 1]) = 1
                    /\ log[k + 1][1][1] = "diag"

\* C13: dispatch is a function of the current state and the event alone.
\* Two dispatch calls of the same event in the same state return the same
\* state and invoke the same hooks and diagnostics in the same order,
\* whatever was dispatched before each of them.
C13_HistoryFree ==
    \A i \in DOMAIN hist : \A j \in DOMAIN hist :
        hist[i] = hist[j] =>
            /\ After(i) = After(j)
            /\ log[i + 1] = log[j + 1]

\* The same handled call was made twice, after different histories.
C13_Witness ==
    /\ Dispatched
    /\ Len(hist) >= 3
    /\ hist[1] = hist[Len(hist)]
    /\ hist[2] # hist[1]
    /\ ~NoRule(LastState, LastEvent)
    /\ cur # LastState

\* C14: dispatch does not modify the FSM it is called on.  When the call
\* returns, with or without a transition, the receiver still holds the state
\* it was called in; the new state exists only in the returned value.
C14_ReceiverUntouched ==
    Dispatched => recv = LastState

C14_Witness ==
    /\ Dispatched
    /\ phase = "run"
    /\ recv = LastState
    /\ cur # recv

\* No two exact rules for one (state, event), no two wildcard rules for one
\* event.
OneRulePerKey ==
    /\ \A r \in exact : \A q \in exact :
            (r[1] = q[1] /\ r[2] = q[2]) => r = q
    /\ \A r \in generic : \A q \in generic : r[1] = q[1] => r = q

\* C15: registering a second exact rule for a registered (state, event), or a
\* second wildcard rule for a registered event, is rejected at setup: the
\* registration does not complete, the earlier rule stays as it was, and
\* nothing is ever constructed or dispatched on a table with two rules for
\* one key.
C15_DuplicateRejected ==
    [][ /\ \A s \in states, e \in events, t \in states :
              (HasExact(s, e) /\ NEW_TRANSITION(s, e, t)) =>
                  (phase' = "ill_formed" /\ exact' = exact
                                         /\ generic' = generic)
        /\ \A e \in events, t \in states :
              (HasGeneric(e) /\ NEW_GENERIC_TRANSITION(e, t)) =>
                  (phase' = "ill_formed" /\ exact' = exact
                                         /\ generic' = generic)
        /\ (phase = "setup" /\ phase' = "setup") =>
              (exact \subseteq exact' /\ generic \subseteq generic')
        /\ phase = "ill_formed" => UNCHANGED vars
        /\ OneRulePerKey'
      ]_vars

\* A duplicate was rejected during setup: the table still holds rules of both
\* kinds and nothing was constructed.
C15_Witness ==
    /\ phase = "ill_formed"
    /\ op = "none"
    /\ exact # {}
    /\ generic # {}

\* C16: whether exit is skipped depends on the event being critical alone,
\* and whether a rule applies in any state on the rule being a wildcard
\* alone.  A critical event resolved by an exact rule skips exit(source); an
\* ordinary event resolved by a wildcard rule runs exit(source) and then
\* enter(target).
C16_CriticalAndWildcardIndependent ==
    \A i \in DOMAIN hist :
        LET s == hist[i][1]
            e == hist[i][2]
        IN  /\ \A t \in states :
                  (Critical(e) /\ ExactRule(s, e, t)) =>
                      (After(i) = t /\ log[i + 1] = << Enter(t) >>)
            /\ \A t \in states :
                  (Ordinary(e) /\ WildcardRule(e, t) /\ NoExactRule(s, e)) =>
                      (After(i) = t /\ log[i + 1] = << Exit(s), Enter(t) >>)
            /\ ~NoRule(s, e) =>
                  (Exit(s) \in Range(log[i + 1]) <=> Ordinary(e))

\* A critical event went through an exact rule and an ordinary event through
\* a wildcard rule, in the same program.
C16_Witness ==
    /\ phase = "run"
    /\ \E i \in DOMAIN hist :
            /\ Critical(hist[i][2])
            /\ ~NoExactRule(hist[i][1], hist[i][2])
            /\ Len(log[i + 1]) = 1
    /\ \E i \in DOMAIN hist :
            /\ Ordinary(hist[i][2])
            /\ NoExactRule(hist[i][1], hist[i][2])
            /\ ~NoWildcardRule(hist[i][2])
            /\ Len(log[i + 1]) = 2

\* C17: after any finite sequence of dispatches (handled, unhandled,
\* critical) and of invalid inputs of the example loop, the FSM holds one
\* current state, and it is a registered state: in the example one of init,
\* idle, tx, rx, error.
C17_CurrentStateRegistered ==
    phase = "run" =>
        /\ cur \in states
        /\ \A i \in DOMAIN hist : hist[i][1] \in states /\ After(i) \in states
        /\ example =>
              cur \in {"s_init", "s_idle", "s_tx", "s_rx", "s_error"}

\* The example loop has seen an unhandled, a critical and a handled ordinary
\* event and then an invalid input.
C17_Witness ==
    /\ example
    /\ phase = "run"
    /\ op = "invalid"
    /\ \E i \in DOMAIN hist : NoRule(hist[i][1], hist[i][2])
    /\ \E i \in DOMAIN hist : Critical(hist[i][2])
    /\ \E i \in DOMAIN hist :
            Ordinary(hist[i][2]) /\ ~NoRule(hist[i][1], hist[i][2])
    /\ cur \in states

Count(kind, o) == Cardinality({j \in DOMAIN o : o[j][1] = kind})

\* C18: every dispatch call returns an FSM, after at most one exit hook and
\* at most one enter hook; no state is terminal: whatever was dispatched
\* before, a dispatch of any event is accepted and returns.
C18_DispatchAlwaysReturns ==
    \A i \in DOMAIN hist :
        /\ phase = "run"
        /\ After(i) \in states
        /\ Count("exit", log[i + 1]) <= 1
        /\ Count("enter", log[i + 1]) <= 1

\* The rule that resolves event e in state s leads back to s.
SelfRule(s, e) ==
    \/ ExactRule(s, e, s)
    \/ NoExactRule(s, e) /\ WildcardRule(e, s)

\* C19: a resolved transition whose target is its source (ce_reset in init,
\* ce_error in error) is a real transition: enter(target) is invoked again,
\* exit(source) first iff the event is ordinary, and no unhandled-event
\* diagnostic is emitted.
C19_SelfTransitionRuns ==
    \A i \in DOMAIN hist :
        LET s == hist[i][1]
            e == hist[i][2]
        IN  SelfRule(s, e) =>
                /\ After(i) = s
                /\ Ordinary(e) => log[i + 1] = << Exit(s), Enter(s) >>
                /\ Critical(e) => log[i + 1] = << Enter(s) >>

\* The example machine has taken both of its self transitions.
C19_Witness ==
    /\ example
    /\ phase = "run"
    /\ \E i \in DOMAIN hist :
            hist[i] = <<"s_init", "ce_reset">> /\ log[i + 1] = << Enter("s_init") >>
    /\ LastState = "s_error"
    /\ LastEvent = "ce_error"
    /\ Dispatched
    /\ out = << Enter("s_error") >>

\* Everything the constructor and the dispatch calls invoked, in order.
RECURSIVE Flat(_)
Flat(l) == IF l = << >> THEN << >> ELSE Head(l) \o Flat(Tail(l))
IsEnter(x) == x[1] = "enter"
Entered == SelectSeq(Flat(log), IsEnter)
Resolved == {i \in DOMAIN hist : ~NoRule(hist[i][1], hist[i][2])}

\* C20: from the construction on, the current state is the state whose enter
\* hook was invoked last, and the number of enter-hook invocations is one
\* plus the number of dispatches that resolved to a transition.
C20_CurrentIsLastEntered ==
    log # << >> =>
        /\ Len(Entered) = 1 + Cardinality(Resolved)
        /\ Entered[Len(Entered)][2] = cur

\* Resolved and unresolved dispatches have run, the last one unresolved.
C20_Witness ==
    /\ Dispatched
    /\ phase = "run"
    /\ Cardinality(Resolved) >= 2
    /\ Len(hist) > Cardinality(Resolved)
    /\ NoRule(LastState, LastEvent)
    /\ cur # initial
    /\ Entered[Len(Entered)][2] = cur

\* C21: an exit hook is invoked only for the state that is current when
\* dispatch is called, and only by an ordinary event that resolves to a
\* transition.  So in the example machine the exit hook of error is never
\* invoked: only ce_error and ce_reset resolve in error.
C21_ExitOnlyOfCurrentByOrdinary ==
    /\ log # << >> => Count("exit", log[1]) = 0
    /\ \A i \in DOMAIN hist : \A j \in DOMAIN log[i + 1] :
            log[i + 1][j][1] = "exit" =>
                /\ log[i + 1][j][2] = hist[i][1]
                /\ Ordinary(hist[i][2])
                /\ ~NoRule(hist[i][1], hist[i][2])
    /\ example => Exit("s_error") \notin Range(Flat(log))
    /\ op \in {"construct", "dispatch"} => out = log[Len(log)]

\* The example machine left init by an ordinary event, with exit(init),
\* then sat in error, where an ordinary event was dispatched, and left it.
C21_Witness ==
    /\ example
    /\ Dispatched
    /\ phase = "run"
    /\ Exit("s_init") \in Range(Flat(log))
    /\ \E i \in DOMAIN hist : hist[i][1] = "s_error" /\ Ordinary(hist[i][2])
    /\ LastState = "s_error"
    /\ cur # "s_error"

\* The events the prompt of the example announces for the inputs 0 .. 5.
EventOfInput ==
    << "e_ready", "e_startTx", "e_startRx", "e_done", "ce_error", "ce_reset" >>

\* C22: in the example loop an input outside 0 .. 5 dispatches no event: the
\* FSM is returned unchanged, no enter or exit hook runs and no
\* unhandled-event diagnostic is emitted, only the caller's "Invalid event";
\* the inputs 0 .. 5 dispatch ready, startTx, startRx, done, ce_error and
\* ce_reset, in this order.
C22_InvalidInputIgnored ==
    [][ (example /\ phase = "run" /\ input' # << >>) =>
            IF input'[1] \in 0 .. 5
            THEN /\ op' = "dispatch"
                 /\ hist' = Append(hist, <<cur, EventOfInput[input'[1] + 1]>>)
                 /\ Len(log') = Len(log) + 1
            ELSE /\ op' = "invalid"
                 /\ cur' = cur
                 /\ recv' = recv
                 /\ phase' = phase
                 /\ hist' = hist
                 /\ log' = log
                 /\ out' = << <<"invalid">> >>
      ]_vars

\* After a transition the loop read 6: nothing but the message.
C22_Witness ==
    /\ example
    /\ phase = "run"
    /\ op = "invalid"
    /\ input = << 6 >>
    /\ hist # << >>
    /\ cur # initial
    /\ out = << <<"invalid">> >>

---------------------------------------------------------------------------
TypeOK ==
    /\ phase \in {"setup", "run", "ill_formed"}
    /\ cur \in states \cup {NoState}
====
